---- MODULE Spec2Model ----
(***************************************************************************)
(* A model of the MCP upstream-API monitor: the hash-based change          *)
(* detector (source-checker), the three analysis stages (api-researcher,   *)
(* mcp-researcher, engineer) behind callLLM, the dependency cache, the     *)
(* orchestrator runFullCheck / runCheckSources of index.ts and the Slack   *)
(* notifier.  One process run is one command; runs follow each other and   *)
(* share only the state file and the clock.                                *)
(*                                                                         *)
(* Spec is one process run, with every outcome of every fetch and of every *)
(* analysis-service call, started on each of a few state files that        *)
(* earlier runs leave behind.  SpecRuns is any number of runs one after    *)
(* the other, with the clock moving between them, in an environment where  *)
(* only some pages change and the service answers in fewer ways.           *)
(*                                                                         *)
(* The clock counts whole days: Date.now() and the ISO timestamps are in   *)
(* milliseconds in the code, and every instant of the model is a multiple  *)
(* of one day.  A run takes less than one day, so the clock moves only     *)
(* between runs.                                                           *)
(***************************************************************************)
EXTENDS Integers, Sequences, FiniteSets, TLC

\* ------------------------------------------------------------------ bounds

\* Clock advances in one behaviour.
MaxTicks == 2

\* Change entries the analysis service reports for one page.
MaxEntries == 1

\* ------------------------------------------------------- program constants

CACHE_DURATION_DAYS == 30

\* A variant of maxAge that takes the days for hours: the factor 24 is lost.
maxAgeHours == CACHE_DURATION_DAYS \div 24

\* maxAge of mcp-researcher.ts, in days (the code multiplies by the
\* milliseconds of a day).
maxAge == CACHE_DURATION_DAYS * 1

\* The clock steps the model takes between runs: one day, and one day less
\* than the freshness window, so that ages 29, 30 and 31 all occur.
TickSteps == {1, CACHE_DURATION_DAYS - 1}

\* ------------------------------------------------------------ configuration

\* sources.yaml: provider key -> name -> pages, in file order.
Sources ==
  << [apiKey |-> "p1", name |-> "Provider One", web_pages |-> <<"u1", "u2">>],
     [apiKey |-> "p2", name |-> "Provider Two", web_pages |-> <<"u3">>] >>

RECURSIVE PagesFrom(_, _)
PagesFrom(i, j) ==
  IF i > Len(Sources) THEN << >>
  ELSE IF j > Len(Sources[i].web_pages) THEN PagesFrom(i + 1, 1)
  ELSE << [apiKey |-> Sources[i].apiKey, apiName |-> Sources[i].name,
           url |-> Sources[i].web_pages[j]] >> \o PagesFrom(i, j + 1)

\* The (provider, page) pairs in the order checkSources visits them.
PageList == PagesFrom(1, 1)

Urls == { PageList[i].url : i \in 1..Len(PageList) }

\* discoverMcps: the consumers, with their statically found upstream APIs.
Mcps ==
  << [name |-> "mcp-a", useCase |-> "",        upstreamApis |-> <<"api1", "api2">>],
     [name |-> "mcp-b", useCase |-> "weather", upstreamApis |-> << >>] >>

McpNames == { Mcps[i].name : i \in 1..Len(Mcps) }

\* ------------------------------------------------------------- timestamps

\* new Date().toISOString() and new Date(s).getTime(): the string form of an
\* instant and its parse.
toISOString(t) == <<"iso", t>>
getTime(s) == IF Len(s) = 2 /\ s[1] = "iso" THEN s[2] ELSE -1

\* lastCheck: null
Null == << >>

\* --------------------------------------------------------- page content

\* A page body is a sequence of tokens: words, whitespace runs, ISO-8601-like
\* timestamps and markup tags.
Whitespace == {" ", "\n\n"}
Timestamps == {"2024-01-01T10:00:00", "2024-06-02T11:30:00"}
Tags == {"<p>"}

RECURSIVE CollapseWs(_)
\* content.replace(/\s+/g, ' '): every run of whitespace becomes one space.
CollapseWs(c) ==
  IF c = << >> THEN << >>
  ELSE IF Head(c) \in Whitespace
       THEN LET r == CollapseWs(Tail(c))
            IN  IF r # << >> /\ Head(r) = " " THEN r ELSE <<" ">> \o r
       ELSE <<Head(c)>> \o CollapseWs(Tail(c))

\* .replace(/\d{4}-\d{2}-\d{2}T\d{2}:\d{2}:\d{2}/g, '[timestamp]')
ReplaceTimestamps(c) ==
  [i \in 1..Len(c) |-> IF c[i] \in Timestamps THEN "[timestamp]" ELSE c[i]]

RECURSIVE TrimLeft(_)
TrimLeft(c) ==
  IF c # << >> /\ Head(c) = " " THEN TrimLeft(Tail(c)) ELSE c

RECURSIVE TrimRight(_)
TrimRight(c) ==
  IF c # << >> /\ c[Len(c)] = " " THEN TrimRight(SubSeq(c, 1, Len(c) - 1)) ELSE c

\* String.prototype.trim on a whitespace-collapsed text.
Trim(c) == TrimRight(TrimLeft(c))

\* A variant of hashContent that leaves the timestamps in the text.
hashContentWithTimes(content) ==
  <<"sha256">> \o Trim(CollapseWs(content))

\* hashContent: the SHA-256 digest (cut to 16 hex digits) of the normalized
\* content.  The digest is taken to be collision-free: it is the normalized
\* text under a "sha256" tag, which no stored placeholder equals.
hashContent(content) ==
  <<"sha256">> \o Trim(ReplaceTimestamps(CollapseWs(content)))

\* The hash written for a failed fetch: ''.
EmptyHash == << >>

\* extractTextContent: tags become spaces, whitespace is collapsed, the
\* result trimmed.
extractTextContent(html) ==
  Trim(CollapseWs([i \in 1..Len(html) |->
                     IF html[i] \in Tags THEN " " ELSE html[i]]))

\* The page bodies a fetch may return: two texts, and markup without text.
PageContents == { <<"a">>, <<"b">>, <<"<p>">> }

\* The HTTP statuses a fetch may return.
HttpStatuses == {200}

\* What one fetch does: it throws (timeout, DNS, transport error), or it
\* resolves with a status and a body.
FetchFailure == [ok |-> FALSE, status |-> 0, content |-> << >>]
FetchOk(s, c) == [ok |-> TRUE, status |-> s, content |-> c]

FetchOutcomes ==
  { FetchFailure } \cup { FetchOk(s, c) : s \in HttpStatuses, c \in PageContents }

\* Every page may do anything.
AnyFetch == [u \in Urls |-> FetchOutcomes]

\* The pages of SpecRuns: the first one changes, fails and answers 404, the
\* second one is up or down, the others are always the same.
RunsFetch ==
  [u \in Urls |->
     IF u = PageList[1].url
     THEN FetchOutcomes \cup { FetchOk(404, <<"a">>) }
     ELSE IF u = PageList[2].url
     THEN { FetchFailure, FetchOk(200, <<"a">>) }
     ELSE { FetchOk(200, <<"a">>) }]

\* ------------------------------------------------------------ check state

\* state.sources[apiKey][url] when the URL has no entry.
NoResource == [seen |-> FALSE, hash |-> EmptyHash, lastChecked |-> Null, status |-> 0]

\* cache[mcpInfo.name] when the consumer has no entry.
NoProfile == [mcp |-> "", hasUses |-> FALSE, uses |-> << >>, purpose |-> ""]
NoCacheEntry == [has |-> FALSE, data |-> NoProfile, timestamp |-> Null]

\* loadCheckState's default: { sources: {}, lastCheck: null }.
EmptyCheckState ==
  [ sources   |-> [u \in Urls |-> NoResource],
    mcpCache  |-> [m \in McpNames |-> NoCacheEntry],
    lastCheck |-> Null ]

VARIABLES
  pc,               \* where the run is: Idle, Detecting, Classifying,
                    \* Resolving, Deciding, Reporting, Done, Failed
  command,          \* the command of the run: "check", "check-sources", "none"
  now,              \* the clock, in days
  ticks,            \* clock advances so far
  file,             \* last-check.json: [exists, form, content]
  state,            \* the CheckState in memory
  pos,              \* index of the next page / provider / consumer of a loop
  page,             \* index of the next page of the provider under analysis
  changes,          \* checkSources' changes
  fetchLog,         \* history: the fetches of this run, in order, with their
                    \* outcomes
  allChanges,       \* analyzeProviderPages' allChanges
  lastResult,       \* what the last analyzeApiChanges call returned
  apiChanges,       \* runFullCheck's apiChanges
  mcpDependencies,  \* analyzeAllMcps' results / runFullCheck's mcpDependencies
  updatedCache,     \* analyzeAllMcps' updatedCache
  engineerOutput,   \* the Decision
  calls,            \* the analysis-service calls of this run, in order
  lastAnswer,       \* history: the kind of the service's last answer
  inflight,         \* requests to the service that are not yet answered
  slack,            \* the notifier: [asked, sends, sent]
  error,            \* why the run failed: "", "no-api-key", "config", "TypeError"
  saves,            \* history: where this run has called saveCheckState
  analysed          \* history: per consumer, when its profile was last
                    \* computed and whether that was the failure fallback

vars == <<pc, command, now, ticks, file, state, pos, page, changes, fetchLog,
          allChanges, lastResult, apiChanges, mcpDependencies, updatedCache,
          engineerOutput, calls, lastAnswer, inflight, slack, error, saves, analysed>>

\* Variables of one run that a step of another stage leaves alone.
detectVars == <<changes, fetchLog>>
stage1Vars == <<allChanges, lastResult, apiChanges>>
stage2Vars == <<mcpDependencies, updatedCache>>
reportVars == <<engineerOutput, slack>>
logVars == <<calls, lastAnswer, inflight>>
clockVars == <<now, ticks>>

NoResult == [provider |-> "", changes |-> << >>, noChangesDetected |-> FALSE]
NoDecision ==
  [ made |-> FALSE, action |-> "", summary |-> "", hasLists |-> FALSE,
    affectedMcps |-> << >>, details |-> << >> ]
NoSlack == [asked |-> FALSE, sends |-> 0, sent |-> FALSE]

NeverAnalysed == [m \in McpNames |-> [at |-> -1, failed |-> FALSE]]

\* A process before its command starts, on state file f at time t.
Fresh(f, t, hist) ==
  /\ pc = "Idle"
  /\ command = "none"
  /\ now = t
  /\ ticks = 0
  /\ file = f
  /\ state = EmptyCheckState
  /\ pos = 1
  /\ page = 1
  /\ changes = << >>
  /\ fetchLog = << >>
  /\ allChanges = << >>
  /\ lastResult = NoResult
  /\ apiChanges = << >>
  /\ mcpDependencies = << >>
  /\ updatedCache = EmptyCheckState.mcpCache
  /\ engineerOutput = NoDecision
  /\ calls = << >>
  /\ lastAnswer = ""
  /\ inflight = 0
  /\ slack = NoSlack
  /\ error = ""
  /\ saves = << >>
  /\ analysed = hist

\* The forms of the file's text: the JSON of a CheckState ("state"), text
\* that JSON.parse rejects ("torn": empty or cut short), and JSON of a value
\* that has no sources ("object": {} for one).  The content of a file that
\* holds no CheckState is the empty default, and is not read.
NoFile == [exists |-> FALSE, form |-> "none", content |-> EmptyCheckState]
TornFile == [exists |-> TRUE, form |-> "torn", content |-> EmptyCheckState]
ObjectFile == [exists |-> TRUE, form |-> "object", content |-> EmptyCheckState]

\* The first run ever: no state file.
InitRuns == Fresh(NoFile, 0, NeverAnalysed)

\* ---------------------------------------------------------------- detection

\* loadCheckState on file f: the parsed file, or the empty default when it
\* cannot be read or parsed.
loadFrom(f) == IF f.exists /\ f.form = "state" THEN f.content ELSE EmptyCheckState

loadCheckState == loadFrom(file)

\* The file parsed to a value without sources, which loadCheckState returns
\* as it is: state.sources[apiKey] in checkSources throws.
sourcesMissing == file.exists /\ file.form = "object"

\* saveCheckState: the file is rewritten with the given state.
saveCheckState(s) == [exists |-> TRUE, form |-> "state", content |-> s]

\* A SourceChange of checkSingleSource for page p.
SourceChange(p, kind, content, hasContent, prevHash, curHash, prevStatus, curStatus) ==
  [ apiKey |-> p.apiKey, apiName |-> p.apiName, url |-> p.url,
    changeType |-> kind, hasContent |-> hasContent, content |-> content,
    previousHash |-> prevHash, currentHash |-> curHash,
    previousStatus |-> prevStatus, currentStatus |-> curStatus ]

\* A variant of checkSingleSourceEntry that writes nothing when the fetch
\* failed.
checkSingleSourceEntryOnSuccess(f) ==
  IF f.ok
  THEN [seen |-> TRUE, hash |-> hashContent(f.content),
        lastChecked |-> toISOString(now), status |-> f.status]
  ELSE state.sources[PageList[pos].url]

\* A variant of checkSingleSourceEntry that stores the fingerprint of the
\* extracted text and not of the fetched content.
checkSingleSourceEntryOfText(f) ==
  IF f.ok
  THEN [seen |-> TRUE, hash |-> hashContent(extractTextContent(f.content)),
        lastChecked |-> toISOString(now), status |-> f.status]
  ELSE [seen |-> TRUE, hash |-> EmptyHash,
        lastChecked |-> toISOString(now), status |-> 0]

\* The entry checkSingleSource writes for the URL.
checkSingleSourceEntry(f) ==
  IF f.ok
  THEN [seen |-> TRUE, hash |-> hashContent(f.content),
        lastChecked |-> toISOString(now), status |-> f.status]
  ELSE [seen |-> TRUE, hash |-> EmptyHash,
        lastChecked |-> toISOString(now), status |-> 0]

\* A variant of writeEntry that gives every entry the time of this check.
writeEntryStamping(sourceState, url, entry) ==
  [u \in DOMAIN sourceState |->
     IF u = url THEN entry
     ELSE [sourceState[u] EXCEPT !.lastChecked = entry.lastChecked]]

\* sourceState[url] = { hash, lastChecked, status }: the entry of the URL is
\* replaced as a whole.
writeEntry(sourceState, url, entry) == [sourceState EXCEPT ![url] = entry]

\* Whether checkSingleSource takes a successful fetch of a URL for its first
\* observation: if (!previousCheck).
isFirstCheck(previousCheck) == ~previousCheck.seen

\* A variant of hashChanged that asks whether there is a stored hash and
\* compares nothing (if (previousCheck.hash)).
hashChangedTruthy(previousCheck, hash) == previousCheck.hash # EmptyHash

\* previousCheck.hash !== hash
hashChanged(previousCheck, hash) == previousCheck.hash # hash

\* A variant of wasReachable that forgets the status
\* (if (previousCheck)).
wasReachableOrSeen(previousCheck) == previousCheck.seen

\* previousCheck && previousCheck.status !== 0
wasReachable(previousCheck) == previousCheck.seen /\ previousCheck.status # 0

\* A variant of checkSingleSourceChange that compares the hashes before it
\* asks whether there is a previous entry (previousCheck?.hash !== hash).
checkSingleSourceChangeHashFirst(p, previousCheck, f) ==
  IF f.ok
  THEN IF previousCheck.hash # hashContent(f.content)
       THEN << SourceChange(p, "modified", extractTextContent(f.content), TRUE,
                            previousCheck.hash, hashContent(f.content),
                            previousCheck.status, f.status) >>
       ELSE IF isFirstCheck(previousCheck)
       THEN << SourceChange(p, "new", extractTextContent(f.content), TRUE,
                            EmptyHash, hashContent(f.content), 0, f.status) >>
       ELSE << >>
  ELSE IF previousCheck.seen /\ previousCheck.status # 0
       THEN << SourceChange(p, "unavailable", << >>, FALSE,
                            EmptyHash, EmptyHash, previousCheck.status, 0) >>
       ELSE << >>

\* The changes checkSingleSource returns (none or one) for page p, given the
\* previous entry and the fetch outcome.
checkSingleSourceChange(p, previousCheck, f) ==
  IF f.ok
  THEN IF isFirstCheck(previousCheck)
       THEN << SourceChange(p, "new", extractTextContent(f.content), TRUE,
                            EmptyHash, hashContent(f.content), 0, f.status) >>
       ELSE IF hashChanged(previousCheck, hashContent(f.content))
       THEN << SourceChange(p, "modified", extractTextContent(f.content), TRUE,
                            previousCheck.hash, hashContent(f.content),
                            previousCheck.status, f.status) >>
       ELSE << >>
  ELSE IF wasReachable(previousCheck)
       THEN << SourceChange(p, "unavailable", << >>, FALSE,
                            EmptyHash, EmptyHash, previousCheck.status, 0) >>
       ELSE << >>

RECURSIVE groupFrom(_, _)
\* groupChangesByProvider: the changes with content, grouped by provider key
\* in the order of each key's first change.
groupFrom(cs, grouped) ==
  IF cs = << >> THEN grouped
  ELSE LET change == Head(cs)
           has == \E i \in 1..Len(grouped) : grouped[i].apiKey = change.apiKey
           withKey == IF has THEN grouped
                      ELSE Append(grouped, [apiKey |-> change.apiKey,
                                            name |-> change.apiName,
                                            pages |-> << >>])
           k == CHOOSE i \in 1..Len(withKey) : withKey[i].apiKey = change.apiKey
       IN  IF ~change.hasContent \/ change.content = << >>
           THEN groupFrom(Tail(cs), grouped)
           ELSE groupFrom(Tail(cs),
                  [withKey EXCEPT ![k].pages =
                     Append(@, [url |-> change.url, content |-> change.content])])

groupChangesByProvider(cs) == groupFrom(cs, << >>)

\* runFullCheck's changedProviders.
changedProviders == groupChangesByProvider(changes)

\* The process of a run ends: its memory is gone.
ClearRun ==
  /\ state' = EmptyCheckState
  /\ pos' = 1
  /\ page' = 1
  /\ changes' = << >>
  /\ fetchLog' = << >>
  /\ allChanges' = << >>
  /\ lastResult' = NoResult
  /\ apiChanges' = << >>
  /\ mcpDependencies' = << >>
  /\ updatedCache' = EmptyCheckState.mcpCache
  /\ engineerOutput' = NoDecision
  /\ calls' = << >>
  /\ lastAnswer' = ""
  /\ inflight' = 0
  /\ slack' = NoSlack
  /\ error' = ""
  /\ saves' = << >>
  /\ UNCHANGED analysed

\* main: a command starts.  For "check", runFullCheck first asks whether the
\* API key is set and exits if not; checkSources then loads sources.yaml,
\* which throws when the file is missing, and the state file, and throws at
\* the first provider when what it loaded has no sources.
StartRun(cmd, apiKeySet, configOk) ==
  /\ pc = "Idle"
  /\ command' = cmd
  /\ IF cmd = "check" /\ ~apiKeySet
     THEN /\ pc' = "Failed"
          /\ error' = "no-api-key"
          /\ UNCHANGED state
     ELSE IF ~configOk
     THEN /\ pc' = "Failed"
          /\ error' = "config"
          /\ UNCHANGED state
     ELSE IF sourcesMissing
     THEN /\ pc' = "Failed"
          /\ error' = "TypeError"
          /\ UNCHANGED state
     ELSE /\ pc' = "Detecting"
          /\ state' = loadCheckState
          /\ UNCHANGED error
  /\ UNCHANGED <<now, ticks, file, pos, page, saves, analysed>>
  /\ UNCHANGED <<detectVars, stage1Vars, stage2Vars, reportVars, logVars>>

\* A variant of CheckSingleSource in which a failed fetch ends the loop of
\* checkSources: the pages after it are not checked.
CheckSingleSourceAborting(fetches) ==
  /\ pc = "Detecting"
  /\ pos <= Len(PageList)
  /\ \E f \in fetches[PageList[pos].url] :
       LET p == PageList[pos]
           previousCheck == state.sources[p.url]
       IN  /\ state' = [state EXCEPT !.sources[p.url] = checkSingleSourceEntry(f)]
           /\ changes' = changes \o checkSingleSourceChange(p, previousCheck, f)
           /\ fetchLog' = Append(fetchLog, [url |-> p.url, outcome |-> f])
           /\ pos' = IF f.ok THEN pos + 1 ELSE Len(PageList) + 1
  /\ UNCHANGED <<pc, command, file, page, logVars, error, saves, analysed>>
  /\ UNCHANGED <<clockVars, stage1Vars, stage2Vars, reportVars>>

\* checkSingleSource for the next configured page; fetches[u] are the
\* outcomes the fetch of u may have.
CheckSingleSource(fetches) ==
  /\ pc = "Detecting"
  /\ pos <= Len(PageList)
  /\ \E f \in fetches[PageList[pos].url] :
       LET p == PageList[pos]
           previousCheck == state.sources[p.url]
       IN  /\ state' = [state EXCEPT !.sources =
                                 writeEntry(@, p.url, checkSingleSourceEntry(f))]
           /\ changes' = changes \o checkSingleSourceChange(p, previousCheck, f)
           /\ fetchLog' = Append(fetchLog, [url |-> p.url, outcome |-> f])
  /\ pos' = pos + 1
  /\ UNCHANGED <<pc, command, file, page, logVars, error, saves, analysed>>
  /\ UNCHANGED <<clockVars, stage1Vars, stage2Vars, reportVars>>

\* The end of checkSources (lastCheck, saveCheckState) and what the command
\* does with its result: runCheckSources prints it, runFullCheck groups the
\* changes and goes on to the analysis, or to the decision when no provider
\* has a changed page.
\* A variant of afterDetection in which a full check always goes on to the
\* analysis.
afterDetectionAnalysing(cmd, providers) ==
  IF cmd = "check-sources" THEN "Done" ELSE "Classifying"

\* Where the run goes when checkSources has returned: runCheckSources
\* prints the changes and ends; runFullCheck analyses if a provider has a
\* changed page, and goes to the decision if none has.
afterDetection(cmd, providers) ==
  IF cmd = "check-sources" THEN "Done"
  ELSE IF Len(providers) > 0 THEN "Classifying"
  ELSE "Deciding"

FinishCheckSources ==
  /\ pc = "Detecting"
  /\ pos > Len(PageList)
  /\ state' = [state EXCEPT !.lastCheck = toISOString(now)]
  /\ file' = saveCheckState(state')
  /\ saves' = Append(saves, pc)
  /\ pos' = 1
  /\ page' = 1
  /\ pc' = afterDetection(command, changedProviders)
  /\ UNCHANGED <<command, logVars, error, analysed>>
  /\ UNCHANGED <<clockVars, detectVars, stage1Vars, stage2Vars, reportVars>>

\* ------------------------------------------------------------------ callLLM

\* What the analysis service does with a request: messages.create throws
\* (transport error, API error), or it answers without a text block, with a
\* text that holds no {...}, with a {...} that JSON.parse rejects, or with a
\* {...} that parses to an object.
FailureKinds == {"transport-error", "no-text", "no-json", "bad-json"}

\* The answers with the given objects; noData is the object of an answer
\* that has none.
Answers(objects, noData) ==
  { [kind |-> k, data |-> noData] : k \in FailureKinds }
    \cup { [kind |-> "json", data |-> d] : d \in objects }

\* callLLM: every failure is caught and returned as success = false without
\* data (undefined); a parsed object is returned as data, whatever its shape
\* (wellFormed: it has the fields the caller reads).
callLLM(answer, undefined) ==
  IF answer.kind = "json"
  THEN [success |-> TRUE, data |-> answer.data]
  ELSE [success |-> FALSE, data |-> undefined]

\* if (!response.success || !response.data)
llmFailed(response) == ~response.success

\* The kind of a response, for the call history.
outcomeOf(response) ==
  IF ~response.success THEN "failure"
  ELSE IF ~response.data.wellFormed THEN "malformed" ELSE "result"

\* A variant of awaited in which a request does not wait for the answer to
\* the one before it.
awaitedLoosely == inflight < 2

\* `await callLLM(...)`: the caller goes on only when the call has returned,
\* so a request is made when none is open.
awaited == inflight = 0

\* anthropic.messages.create has resolved or thrown.
answered == inflight > 0

Call(stage, key, response) ==
  [stage |-> stage, key |-> key, outcome |-> outcomeOf(response)]

\* ------------------------------------------------------------------ stage 1

Titles == {"t1", "t2"}

\* sourceUrl as the service gives it: absent, or its own.
LlmSourceUrls == {""}

LlmEntries == [title : Titles, sourceUrl : LlmSourceUrls]

RECURSIVE SeqsUpTo(_, _)
\* The sequences over S of length at most n.
SeqsUpTo(S, n) ==
  IF n = 0 THEN { << >> }
  ELSE LET shorter == SeqsUpTo(S, n - 1)
       IN  shorter \cup { Append(q, x) : q \in shorter, x \in S }

\* An object without the fields analyzeApiChanges reads.
Stage1NoData == [wellFormed |-> FALSE, changes |-> << >>, noChangesDetected |-> FALSE]

\* The objects the service may answer with in stage 1.
Stage1Data ==
  { Stage1NoData }
    \cup { [wellFormed |-> TRUE, changes |-> cs, noChangesDetected |-> b] :
             cs \in SeqsUpTo(LlmEntries, MaxEntries), b \in BOOLEAN }

Stage1Answers == Answers(Stage1Data, Stage1NoData)

\* analyzeApiChanges, given callLLM's response: the ApiResearcherOutput.
analyzeApiChanges(provider, pageUrl, response) ==
  IF llmFailed(response)
  THEN [provider |-> provider, changes |-> << >>, noChangesDetected |-> TRUE]
  ELSE LET data == response.data
           cs == [i \in 1..Len(data.changes) |->
                    [title |-> data.changes[i].title,
                     sourceUrl |-> IF data.changes[i].sourceUrl # ""
                                   THEN data.changes[i].sourceUrl
                                   ELSE pageUrl]]
       IN  [provider |-> provider, changes |-> cs,
            noChangesDetected |-> data.noChangesDetected \/ Len(cs) = 0]

\* A variant of analyzeApiChangesThrows in which a failed call is an error
\* too, and not an empty result.
analyzeApiChangesRethrows(response) ==
  llmFailed(response) \/ ~response.data.wellFormed

\* analyzeApiChanges throws: response.data.changes is not there to map.
analyzeApiChangesThrows(response) ==
  ~llmFailed(response) /\ ~response.data.wellFormed

\* self.findIndex((c) => c.title === change.title)
findIndex(self, title) ==
  CHOOSE i \in 1..Len(self) :
    /\ self[i].title = title
    /\ \A j \in 1..(i - 1) : self[j].title # title

RECURSIVE filterLast(_, _)
filterLast(self, index) ==
  IF index > Len(self) THEN << >>
  ELSE (IF \A j \in (index + 1)..Len(self) : self[j].title # self[index].title
        THEN << self[index] >> ELSE << >>) \o filterLast(self, index + 1)

RECURSIVE filterFirst(_, _)
filterFirst(self, index) ==
  IF index > Len(self) THEN << >>
  ELSE (IF index = findIndex(self, self[index].title)
        THEN << self[index] >> ELSE << >>) \o filterFirst(self, index + 1)

\* The deduplication of analyzeProviderPages.
uniqueChanges(all) == filterFirst(all, 1)

\* A variant of providerResult that hands on the flag of the last page's
\* result.
providerResultOfLast(provider, all) ==
  [ provider |-> provider, changes |-> uniqueChanges(all),
    noChangesDetected |-> lastResult'.noChangesDetected ]

\* The result of analyzeProviderPages.
providerResult(provider, all) ==
  [ provider |-> provider, changes |-> uniqueChanges(all),
    noChangesDetected |-> Len(uniqueChanges(all)) = 0 ]

\* One analyzeApiChanges call of analyzeProviderPages: the next changed page
\* of the provider under analysis.  After the provider's last page its
\* result is pushed to apiChanges; after the last provider stage 2 begins.
AnalyzeApiChanges(answers) ==
  /\ pc = "Classifying"
  /\ pos <= Len(changedProviders)
  /\ LET providerData == changedProviders[pos]
         thePage == providerData.pages[page]
         lastPage == page = Len(providerData.pages)
         lastProvider == pos = Len(changedProviders)
     IN  \E answer \in answers :
           LET response == callLLM(answer, Stage1NoData) IN
           /\ answered
           /\ calls' = Append(calls, Call(1, thePage.url, response))
           /\ lastAnswer' = answer.kind
           /\ inflight' = inflight - 1
           /\ IF analyzeApiChangesThrows(response)
              THEN /\ pc' = "Failed"
                   /\ error' = "TypeError"
                   /\ UNCHANGED <<pos, page, stage1Vars>>
              ELSE LET result == analyzeApiChanges(providerData.name, thePage.url, response)
                       all == allChanges \o result.changes
                   IN  /\ lastResult' = result
                       /\ UNCHANGED error
                       /\ IF lastPage
                          THEN /\ apiChanges' = Append(apiChanges,
                                                  providerResult(providerData.name, all))
                               /\ allChanges' = << >>
                               /\ page' = 1
                               /\ pos' = IF lastProvider THEN 1 ELSE pos + 1
                               /\ pc' = IF lastProvider THEN "Resolving" ELSE pc
                          ELSE /\ allChanges' = all
                               /\ page' = page + 1
                               /\ UNCHANGED <<pos, pc, apiChanges>>
  /\ UNCHANGED <<command, file, state, saves, analysed>>
  /\ UNCHANGED <<clockVars, detectVars, stage2Vars, reportVars>>

\* ------------------------------------------------------------------ stage 2

\* The dependency list the service reports for a consumer.
LlmUses == << [api |-> "Forecast API", endpoints |-> <<"/forecast">>, critical |-> FALSE] >>

\* An object without uses and purpose.
Stage2NoData == [wellFormed |-> FALSE, uses |-> << >>, purpose |-> ""]

\* The profile the service reports.
Stage2Profile == [wellFormed |-> TRUE, uses |-> LlmUses, purpose |-> "from the service"]

Stage2Answers == Answers({Stage2NoData, Stage2Profile}, Stage2NoData)

\* A variant of isFresh that still takes an entry of exactly maxAge.
isFreshInclusive(cached, t) == t - getTime(cached.timestamp) <= maxAge

\* cacheAge < maxAge
isFresh(cached, t) == t - getTime(cached.timestamp) < maxAge

\* A variant of cacheValid with the comparison the wrong way round.
cacheValidInverted(cache, mcpInfo, t) ==
  cache[mcpInfo.name].has /\ ~isFresh(cache[mcpInfo.name], t)

\* The cache check of analyzeMcpDependencies: the entry is there and fresh.
cacheValid(cache, mcpInfo, t) ==
  cache[mcpInfo.name].has /\ isFresh(cache[mcpInfo.name], t)

\* A variant of fallbackProfile that gives up the discovered APIs.
fallbackProfileEmpty(mcpInfo) ==
  [ mcp |-> mcpInfo.name, hasUses |-> TRUE, uses |-> << >>,
    purpose |-> IF mcpInfo.useCase # "" THEN mcpInfo.useCase ELSE "Unknown" ]

\* The profile analyzeMcpDependencies builds when the service call failed.
fallbackProfile(mcpInfo) ==
  [ mcp |-> mcpInfo.name, hasUses |-> TRUE,
    uses |-> [i \in 1..Len(mcpInfo.upstreamApis) |->
                [api |-> mcpInfo.upstreamApis[i], endpoints |-> << >>,
                 critical |-> TRUE]],
    purpose |-> IF mcpInfo.useCase # "" THEN mcpInfo.useCase ELSE "Unknown" ]

\* analyzeMcpDependencies past the cache check, given callLLM's response.
computeProfile(mcpInfo, response) ==
  IF llmFailed(response)
  THEN fallbackProfile(mcpInfo)
  ELSE [ mcp |-> mcpInfo.name, hasUses |-> response.data.wellFormed,
         uses |-> response.data.uses, purpose |-> response.data.purpose ]

\* A variant of cacheEntry that keeps no profile.
cacheEntryEmpty(result, t) ==
  [has |-> FALSE, data |-> NoProfile, timestamp |-> toISOString(t)]

\* The entry analyzeAllMcps writes for a consumer.
cacheEntry(result, t) == [has |-> TRUE, data |-> result, timestamp |-> toISOString(t)]

\* One pass of analyzeAllMcps' loop: analyzeMcpDependencies for the next
\* consumer against the cache as loaded, then the write to updatedCache.
AnalyzeMcpDependencies(answers) ==
  /\ pc = "Resolving"
  /\ pos <= Len(Mcps)
  /\ LET mcp == Mcps[pos]
         cache == state.mcpCache
         \* const updatedCache = { ...cache } before the first pass
         updated == IF pos = 1 THEN cache ELSE updatedCache
     IN  IF cacheValid(cache, mcp, now)
         THEN /\ mcpDependencies' = Append(mcpDependencies, cache[mcp.name].data)
              /\ updatedCache' = [updated EXCEPT ![mcp.name] =
                                    cacheEntry(cache[mcp.name].data, now)]
              /\ UNCHANGED <<logVars, analysed>>
         ELSE \E answer \in answers :
                LET response == callLLM(answer, Stage2NoData)
                    result == computeProfile(mcp, response)
                IN  /\ answered
                    /\ calls' = Append(calls, Call(2, mcp.name, response))
                    /\ lastAnswer' = answer.kind
                    /\ inflight' = inflight - 1
                    /\ analysed' = [analysed EXCEPT ![mcp.name] =
                                      [at |-> now, failed |-> llmFailed(response)]]
                    /\ mcpDependencies' = Append(mcpDependencies, result)
                    /\ updatedCache' = [updated EXCEPT ![mcp.name] =
                                          cacheEntry(result, now)]
  /\ pos' = pos + 1
  /\ UNCHANGED <<pc, command, file, state, page, error, saves>>
  /\ UNCHANGED <<clockVars, detectVars, stage1Vars, reportVars>>

\* mcp.uses.length / mcp.uses.map on a profile without uses throws.
usesThrows(deps) == \E i \in 1..Len(deps) : ~deps[i].hasUses

\* After analyzeAllMcps: the cache is put into the state, the state saved,
\* and each profile's dependency count printed.
FinishStage2Unsaved ==
  /\ pc = "Resolving"
  /\ pos > Len(Mcps)
  /\ state' = [state EXCEPT !.mcpCache = updatedCache]
  /\ pc' = IF usesThrows(mcpDependencies) THEN "Failed" ELSE "Deciding"
  /\ error' = IF usesThrows(mcpDependencies) THEN "TypeError" ELSE error
  /\ pos' = 1
  /\ UNCHANGED <<command, file, saves, page, logVars, analysed>>
  /\ UNCHANGED <<clockVars, detectVars, stage1Vars, stage2Vars, reportVars>>

FinishStage2 ==
  /\ pc = "Resolving"
  /\ pos > Len(Mcps)
  /\ state' = [state EXCEPT !.mcpCache = updatedCache]
  /\ file' = saveCheckState(state')
  /\ saves' = Append(saves, pc)
  /\ pc' = IF usesThrows(mcpDependencies) THEN "Failed" ELSE "Deciding"
  /\ error' = IF usesThrows(mcpDependencies) THEN "TypeError" ELSE error
  /\ pos' = 1
  /\ UNCHANGED <<command, page, logVars, analysed>>
  /\ UNCHANGED <<clockVars, detectVars, stage1Vars, stage2Vars, reportVars>>

\* ------------------------------------------------------------------ stage 3

Actions == {"none", "notify", "urgent"}

Decision(action, summary, hasLists, affected, details) ==
  [ made |-> TRUE, action |-> action, summary |-> summary, hasLists |-> hasLists,
    affectedMcps |-> affected, details |-> details ]

\* The objects the service may answer with: a Decision for each action, an
\* object whose action is none of the three, and an object without the
\* expected fields.
Stage3NoData == [wellFormed |-> FALSE, action |-> "", affectedMcps |-> << >>]

Stage3Data ==
  { Stage3NoData,
    [wellFormed |-> TRUE, action |-> "info", affectedMcps |-> << >>] }
    \cup { [wellFormed |-> TRUE, action |-> a,
            affectedMcps |-> IF a = "none" THEN << >> ELSE << Mcps[1].name >>] :
             a \in Actions }

Stage3Answers == Answers(Stage3Data, Stage3NoData)

\* A variant of flatChanges that counts the provider results and not their
\* entries (apiChanges.length === 0).
flatChangesProviders(outs) == outs

RECURSIVE flatChanges(_)
\* apiChanges.flatMap((a) => a.changes)
flatChanges(outs) ==
  IF outs = << >> THEN << >> ELSE Head(outs).changes \o flatChanges(Tail(outs))

\* The Decision of the short-circuit of decideAction.
noChangesDecision ==
  Decision("none", "No API changes detected in monitored sources.", TRUE, << >>, << >>)

\* A variant of failureDecision that keeps silent.
failureDecisionNone ==
  Decision("none", "automated analysis failed. Manual review recommended.",
           TRUE, << >>, << >>)

\* The Decision decideAction returns when the service call failed.
failureDecision ==
  Decision("notify", "automated analysis failed. Manual review recommended.",
           TRUE, << >>, << >>)

\* decideAction past the short-circuit, given callLLM's response.
decideFromResponse(response) ==
  IF llmFailed(response)
  THEN failureDecision
  ELSE Decision(response.data.action, "from the service", response.data.wellFormed,
                response.data.affectedMcps,
                [i \in 1..Len(response.data.affectedMcps) |->
                   [mcp |-> response.data.affectedMcps[i], impact |-> "high"]])

\* A variant of afterDecision that asks the service again after a failure.
afterDecisionRetry(response) ==
  IF llmFailed(response) THEN "Deciding" ELSE "Reporting"

\* decideAction returns after its one call, with the Decision of the
\* service or the fallback: runFullCheck goes on to its report.
afterDecision(response) == "Reporting"

\* decideAction.
DecideAction(answers) ==
  /\ pc = "Deciding"
  /\ IF Len(flatChanges(apiChanges)) = 0
     THEN /\ engineerOutput' = noChangesDecision
          /\ pc' = "Reporting"
          /\ UNCHANGED <<logVars, error>>
     ELSE IF usesThrows(mcpDependencies)
     THEN /\ pc' = "Failed"
          /\ error' = "TypeError"
          /\ UNCHANGED <<engineerOutput, logVars>>
     ELSE \E answer \in answers :
            LET response == callLLM(answer, Stage3NoData) IN
            /\ answered
            /\ calls' = Append(calls, Call(3, "decision", response))
            /\ lastAnswer' = answer.kind
            /\ inflight' = inflight - 1
            /\ engineerOutput' = decideFromResponse(response)
            /\ pc' = afterDecision(response)
            /\ UNCHANGED error
  /\ UNCHANGED <<command, file, state, pos, page, slack, saves, analysed>>
  /\ UNCHANGED <<clockVars, detectVars, stage1Vars, stage2Vars>>

\* ---------------------------------------------------------------- reporting

\* formatConsoleReport and buildSlackBlocks read affectedMcps.length and
\* details: they throw on a Decision without the lists.
reportThrows(out) == ~out.hasLists

shouldNotifyUrgent(out) == out.action = "urgent"

\* notifyChanges sends only if there is an action to take.
shouldNotify(out) == out.action # "none"

\* A variant of afterSend in which the error of webhook.send is not caught.
afterSendThrowing(delivered) == IF delivered THEN "Done" ELSE "Failed"

\* webhook.send is in a try: notifyChanges returns true when it resolves and
\* false when it throws, and runFullCheck prints the one or the other and
\* returns.
afterSend(delivered) == "Done"

\* The report is printed and, when SLACK_WEBHOOK_URL is set, notifyChanges
\* called: webhook.send resolves or throws.
Report ==
  /\ pc = "Reporting"
  /\ IF reportThrows(engineerOutput)
     THEN /\ pc' = "Failed"
          /\ error' = "TypeError"
          /\ UNCHANGED slack
     ELSE /\ UNCHANGED error
          /\ \E webhookUrl \in BOOLEAN, delivered \in BOOLEAN :
               /\ slack' = IF ~webhookUrl THEN NoSlack
                           ELSE IF ~shouldNotify(engineerOutput)
                           THEN [asked |-> TRUE, sends |-> 0, sent |-> FALSE]
                           ELSE [asked |-> TRUE, sends |-> 1, sent |-> delivered]
               /\ pc' = IF webhookUrl /\ shouldNotify(engineerOutput)
                        THEN afterSend(delivered)
                        ELSE "Done"
  /\ UNCHANGED <<command, file, state, pos, page, engineerOutput, logVars, saves, analysed>>
  /\ UNCHANGED <<clockVars, detectVars, stage1Vars, stage2Vars>>

\* ------------------------------------------------------------ the request

\* The next statement of the run is a call of the service: for the next
\* changed page, for the next consumer without a valid cache entry, or for
\* the decision on a non-empty list of changes.
Calling ==
  \/ pc = "Classifying" /\ pos <= Len(changedProviders)
  \/ /\ pc = "Resolving"
     /\ pos <= Len(Mcps)
     /\ ~cacheValid(state.mcpCache, Mcps[pos], now)
  \/ /\ pc = "Deciding"
     /\ Len(flatChanges(apiChanges)) # 0
     /\ ~usesThrows(mcpDependencies)

\* callLLM sends its request to the service.
Request ==
  /\ Calling
  /\ awaited
  /\ inflight' = inflight + 1
  /\ UNCHANGED <<calls, lastAnswer>>
  /\ UNCHANGED <<pc, command, file, state, pos, page, error, saves, analysed>>
  /\ UNCHANGED <<clockVars, detectVars, stage1Vars, stage2Vars, reportVars>>

\* ----------------------------------------------------------- between runs

\* The process exits: normally, or with status 1 after an uncaught error.
Exit ==
  /\ pc \in {"Done", "Failed"}
  /\ pc' = "Idle"
  /\ command' = "none"
  /\ ClearRun
  /\ UNCHANGED <<clockVars, file>>

\* Time passes between runs.
Tick ==
  /\ pc = "Idle"
  /\ ticks < MaxTicks
  /\ \E d \in TickSteps : now' = now + d
  /\ ticks' = ticks + 1
  /\ UNCHANGED <<pc, command, file, state, pos, page, logVars, error, saves, analysed>>
  /\ UNCHANGED <<detectVars, stage1Vars, stage2Vars, reportVars>>

Commands == {"check", "check-sources"}

\* --------------------------------------------------------- one process run

\* A state file an earlier run left: every page checked at time t (the
\* second one down or up), and the cache either never written or written at t
\* with a profile from the service and a fallback profile.
PriorFile(t, secondDown, cached) ==
  LET up == [seen |-> TRUE, hash |-> hashContent(<<"a">>),
             lastChecked |-> toISOString(t), status |-> 200]
      down == [seen |-> TRUE, hash |-> EmptyHash,
               lastChecked |-> toISOString(t), status |-> 0]
  IN  [ exists |-> TRUE, form |-> "state",
        content |->
          [ sources |-> [u \in Urls |->
                           IF secondDown /\ u = PageList[2].url THEN down ELSE up],
            mcpCache |-> [m \in McpNames |->
                            IF ~cached THEN NoCacheEntry
                            ELSE IF m = Mcps[1].name
                            THEN cacheEntry(computeProfile(Mcps[1],
                                   [success |-> TRUE, data |-> Stage2Profile]), t)
                            ELSE cacheEntry(fallbackProfile(
                                   CHOOSE x \in {Mcps[i] : i \in 1..Len(Mcps)} :
                                     x.name = m), t)],
            lastCheck |-> toISOString(t) ] ]

PriorHistory(t, cached) ==
  [m \in McpNames |->
     IF ~cached THEN [at |-> -1, failed |-> FALSE]
     ELSE [at |-> t, failed |-> m # Mcps[1].name]]

\* The ages the state file of Spec has when the process starts.
StartAges == {CACHE_DURATION_DAYS - 1, CACHE_DURATION_DAYS}

\* One process: on no state file, on a file that holds no CheckState, or on
\* a state file written at day 0.
Init ==
  \/ \E f \in {NoFile, TornFile, ObjectFile} : Fresh(f, 0, NeverAnalysed)
  \/ \E age \in StartAges, secondDown \in BOOLEAN, cached \in BOOLEAN :
       Fresh(PriorFile(0, secondDown, cached), age, PriorHistory(0, cached))

Next ==
  \/ \E cmd \in Commands, apiKeySet \in BOOLEAN, configOk \in BOOLEAN :
       StartRun(cmd, apiKeySet, configOk)
  \/ CheckSingleSource(AnyFetch)
  \/ FinishCheckSources
  \/ AnalyzeApiChanges(Stage1Answers)
  \/ AnalyzeMcpDependencies(Stage2Answers)
  \/ FinishStage2
  \/ DecideAction(Stage3Answers)
  \/ Request
  \/ Report

Spec == Init /\ [][Next]_vars

\* ------------------------------------------------------ runs after runs

\* The answers of the analysis service in SpecRuns: stage 1 fails or reports
\* one entry, stage 3 fails or decides to notify.
RunsStage1Answers ==
  { a \in Stage1Answers :
      \/ a.kind = "transport-error"
      \/ /\ a.kind = "json"
         /\ a.data.wellFormed /\ a.data.changes # << >> /\ ~a.data.noChangesDetected
         /\ \A i \in 1..Len(a.data.changes) : a.data.changes[i].title = "t1" }

RunsStage2Answers ==
  { a \in Stage2Answers : a.kind \in {"transport-error", "json"} }

RunsStage3Answers ==
  { a \in Stage3Answers :
      a.kind = "transport-error" \/ (a.kind = "json" /\ a.data.action = "notify") }

NextRuns ==
  \/ \E cmd \in Commands : StartRun(cmd, TRUE, TRUE)
  \/ CheckSingleSource(RunsFetch)
  \/ FinishCheckSources
  \/ AnalyzeApiChanges(RunsStage1Answers)
  \/ AnalyzeMcpDependencies(RunsStage2Answers)
  \/ FinishStage2
  \/ DecideAction(RunsStage3Answers)
  \/ Request
  \/ Report
  \/ Exit
  \/ Tick

SpecRuns == InitRuns /\ [][NextRuns]_vars

\* ------------------------------------ runs over texts with space and times

\* The longest page body of SpecTexts, in tokens.
MaxBody == 3

\* The tokens of a page body: a word, whitespace, timestamps.
BodyTokens == {"a"} \cup Whitespace \cup Timestamps

Bodies == SeqsUpTo(BodyTokens, MaxBody)

\* The pages of SpecTexts: the last page returns any of the bodies, the
\* others the same text at every fetch.
TextsFetch ==
  [u \in Urls |->
     IF u = PageList[Len(PageList)].url
     THEN { FetchOk(200, b) : b \in Bodies }
     ELSE { FetchOk(200, <<"a">>) }]

NextTexts ==
  \/ StartRun("check-sources", TRUE, TRUE)
  \/ CheckSingleSource(TextsFetch)
  \/ FinishCheckSources
  \/ Exit

SpecTexts == InitRuns /\ [][NextTexts]_vars

\* ------------------------------------------- runs that may stop in a save

\* The process stops (it is killed, the machine goes down) inside
\* saveCheckState: writeFile has opened the file, which truncates it, and has
\* written none or only a part of the JSON text.
StopInSave ==
  /\ \/ pc = "Detecting" /\ pos > Len(PageList)
     \/ pc = "Resolving" /\ pos > Len(Mcps)
  /\ file' = TornFile
  /\ pc' = "Failed"
  /\ error' = "killed"
  /\ UNCHANGED <<command, state, pos, page, logVars, saves, analysed>>
  /\ UNCHANGED <<clockVars, detectVars, stage1Vars, stage2Vars, reportVars>>

\* The pages and the answers of SpecStops: the first page changes, every
\* fetch succeeds, and the service answers with a result or not at all.
StopsFetch ==
  [u \in Urls |->
     IF u = PageList[1].url
     THEN { FetchOk(200, <<"a">>), FetchOk(200, <<"b">>) }
     ELSE { FetchOk(200, <<"a">>) }]

StopsStage2Answers ==
  { a \in Stage2Answers :
      a.kind = "transport-error" \/ (a.kind = "json" /\ a.data.wellFormed) }

NextStops ==
  \/ \E cmd \in Commands : StartRun(cmd, TRUE, TRUE)
  \/ CheckSingleSource(StopsFetch)
  \/ FinishCheckSources
  \/ AnalyzeApiChanges(RunsStage1Answers)
  \/ AnalyzeMcpDependencies(StopsStage2Answers)
  \/ FinishStage2
  \/ DecideAction(RunsStage3Answers)
  \/ Request
  \/ Report
  \/ Exit
  \/ Tick
  \/ StopInSave

SpecStops == InitRuns /\ [][NextStops]_vars

\* ================================================================ properties

Last(s) == s[Len(s)]

\* The run has called the service in the given stage for the given key.
Called(stage, key) ==
  \E i \in 1..Len(calls) : calls[i].stage = stage /\ calls[i].key = key

\* The entry of consumer m in the cache as loaded is younger than 30 days.
Young(m) ==
  /\ state.mcpCache[m].has
  /\ now - getTime(state.mcpCache[m].timestamp) < CACHE_DURATION_DAYS

\* The loop of stage 2 is about to take its next consumer.
Resolves == pc = "Resolving" /\ pos <= Len(Mcps)

\* --------------------------------------------------------------------- C1

C1_Attempt ==
  (Resolves /\ pos' = pos + 1) =>
    LET m == Mcps[pos]
    IN  IF Young(m.name)
        THEN /\ mcpDependencies' = Append(mcpDependencies, state.mcpCache[m.name].data)
             /\ calls' = calls
        ELSE /\ Len(calls') = Len(calls) + 1
             /\ Last(calls').stage = 2
             /\ Last(calls').key = m.name
             /\ \E a \in Stage2Answers :
                  mcpDependencies' =
                    Append(mcpDependencies, computeProfile(m, callLLM(a, Stage2NoData)))

\* C1: every resolution attempt of stage 2 for a consumer whose cache entry
\* is less than 30 days old returns the cached profile unchanged and calls
\* nothing; with an entry of 30 days or more, or with no entry, the profile is
\* recomputed: the service is called, and the result is what the call gives
\* or the fallback.
C1_CacheFreshness == [][C1_Attempt]_vars

\* A consumer was served from an entry of 29 days.
C1_Witness ==
  /\ pc = "Resolving"
  /\ pos = 2
  /\ state.mcpCache[Mcps[1].name].has
  /\ now - getTime(state.mcpCache[Mcps[1].name].timestamp) = CACHE_DURATION_DAYS - 1
  /\ mcpDependencies = << state.mcpCache[Mcps[1].name].data >>
  /\ ~Called(2, Mcps[1].name)

\* --------------------------------------------------------------------- C2

\* C2: when analyzeAllMcps serves a consumer's profile from a valid cache
\* entry, without recomputing it, the consumer's entry in the updated cache is
\* the entry from before the cycle: same profile, same timestamp.
C2_CacheHitKeepsEntry ==
  \A i \in 1..Len(Mcps) :
    (pc = "Resolving" /\ i < pos /\ Young(Mcps[i].name) /\ ~Called(2, Mcps[i].name)) =>
      updatedCache[Mcps[i].name] = state.mcpCache[Mcps[i].name]

\* --------------------------------------------------------------------- C3

\* C3: when the service call of stage 3 fails (transport error, no text
\* block, no JSON, JSON that does not parse), decideAction returns a Decision
\* with action notify, never none, and nothing is thrown: the run goes on to
\* the report and ends normally.
C3_Stage3FailureNotifies ==
  (calls # << >> /\ Last(calls).stage = 3 /\ lastAnswer \in FailureKinds) =>
    /\ pc \in {"Reporting", "Done"}
    /\ error = ""
    /\ engineerOutput.made
    /\ engineerOutput.action = "notify"
    /\ engineerOutput.hasLists

\* The stage-3 call has answered with a text without JSON.
C3_Witness ==
  /\ pc = "Reporting"
  /\ calls # << >>
  /\ Last(calls).stage = 3
  /\ lastAnswer = "no-json"
  /\ engineerOutput.action = "notify"

\* --------------------------------------------------------------------- C4

\* Stage 3 has returned.
Decided == command = "check" /\ pc \in {"Reporting", "Done"}

\* No provider result holds an entry.
NoEntries == \A i \in 1..Len(apiChanges) : apiChanges[i].changes = << >>

\* C4: when the provider results given to stage 3 hold no entry at all,
\* decideAction returns action none with no affected consumers and no details,
\* and the service is not called for the decision, whatever the number of
\* provider results and profiles.
C4_ShortCircuit ==
  (Decided /\ NoEntries) =>
    /\ engineerOutput.made
    /\ engineerOutput.action = "none"
    /\ engineerOutput.affectedMcps = << >>
    /\ engineerOutput.details = << >>
    /\ \A i \in 1..Len(calls) : calls[i].stage # 3

\* Stage 3 was given two empty provider results and a profile per consumer.
C4_Witness ==
  /\ pc = "Reporting"
  /\ Len(apiChanges) = Len(Sources)
  /\ NoEntries
  /\ Len(mcpDependencies) = Len(Mcps)
  /\ engineerOutput.action = "none"

\* --------------------------------------------------------------------- C5

\* C5: once the configuration is loaded, a full check reaches its end with a
\* Decision whatever the service answers in the three stages: a run of
\* "check" fails only for a missing API key or a missing configuration.
C5_FailuresAbsorbed ==
  (command = "check" /\ pc = "Failed") => error \in {"no-api-key", "config"}

\* --------------------------------------------------------------------- C6

\* The provider a configured page belongs to.
ProviderOf(url) ==
  LET i == CHOOSE k \in 1..Len(PageList) : PageList[k].url = url
  IN  PageList[i].apiName

\* A stage-1 call for a page of the provider has failed.
SomeCallFailed(provider) ==
  \E i \in 1..Len(calls) :
    /\ calls[i].stage = 1
    /\ ProviderOf(calls[i].key) = provider
    /\ calls[i].outcome = "failure"

\* Every stage-1 call for a page of the provider has failed.
EveryCallFailed(provider) ==
  \A i \in 1..Len(calls) :
    (calls[i].stage = 1 /\ ProviderOf(calls[i].key) = provider) =>
      calls[i].outcome = "failure"

EmptySet(out) == out.changes = << >> /\ out.noChangesDetected

C6_FailedCall ==
  (pc = "Classifying" /\ calls' # calls /\ Last(calls').outcome = "failure") =>
    /\ pc' \in {"Classifying", "Resolving"}
    /\ error' = ""
    /\ lastResult'.provider = changedProviders[pos].name
    /\ EmptySet(lastResult')

C6_AllFailed ==
  \A i \in 1..Len(apiChanges) :
    EveryCallFailed(apiChanges[i].provider) => EmptySet(apiChanges[i])

Resolved == pc = "Resolving" /\ pos > Len(Mcps)

\* The profile of mcpInfo lists each of its discovered APIs, in order, as
\* critical and without endpoints.
IsFallback(profile, mcpInfo) ==
  /\ profile.hasUses
  /\ Len(profile.uses) = Len(mcpInfo.upstreamApis)
  /\ \A k \in 1..Len(profile.uses) :
       /\ profile.uses[k].api = mcpInfo.upstreamApis[k]
       /\ profile.uses[k].critical
       /\ profile.uses[k].endpoints = << >>

\* The n-th stage-2 call of the run: its index in calls.
Stage2Calls == { i \in 1..Len(calls) : calls[i].stage = 2 }

\* C7: during and after stage 2 the profiles are those of the consumers in
\* discovery order, one each when the loop is over, and the profile of a
\* consumer whose service call failed lists one dependency per discovered
\* upstream API, critical and without endpoints.
C7_FallbackProfile ==
  (pc = "Resolving") =>
    /\ Len(mcpDependencies) = pos - 1
    /\ Resolved => Len(mcpDependencies) = Len(Mcps)
    /\ \A i \in 1..Len(mcpDependencies) :
         /\ mcpDependencies[i].mcp = Mcps[i].name
         /\ (\E c \in Stage2Calls : calls[c].key = Mcps[i].name
                                    /\ calls[c].outcome = "failure")
              => IsFallback(mcpDependencies[i], Mcps[i])

\* Stage 2 is over, the call for the first consumer failed, the second
\* consumer's succeeded.
C7_Witness ==
  /\ Resolved
  /\ \E c \in Stage2Calls : calls[c].key = Mcps[1].name /\ calls[c].outcome = "failure"
  /\ \E c \in Stage2Calls : calls[c].key = Mcps[2].name /\ calls[c].outcome = "result"
  /\ Len(mcpDependencies[1].uses) = Len(Mcps[1].upstreamApis)

\* --------------------------------------------------------------------- C8

\* C8: a consumer with a valid cache entry gets the cached profile as it is,
\* and the service is not called for it in the cycle.
C8_CacheHitVerbatim ==
  \A i \in 1..Len(Mcps) :
    (pc = "Resolving" /\ i < pos /\ Young(Mcps[i].name)) =>
      /\ mcpDependencies[i] = state.mcpCache[Mcps[i].name].data
      /\ ~Called(2, Mcps[i].name)

\* Both consumers were served from the cache: a profile of the service and a
\* fallback profile.
C8_Witness ==
  /\ Resolved
  /\ \A i \in 1..Len(Mcps) : Young(Mcps[i].name)
  /\ mcpDependencies[1] = state.mcpCache[Mcps[1].name].data
  /\ mcpDependencies[1].purpose = "from the service"
  /\ Stage2Calls = {}

\* --------------------------------------------------------------------- C9

\* Stage 2 has run to its end and saved.
Stage2Saved == saves # << >> /\ Last(saves) = "Resolving"

C9_Written ==
  Stage2Saved =>
    \A m \in McpNames :
      Called(2, m) =>
        /\ state.mcpCache[m].has
        /\ state.mcpCache[m].timestamp = toISOString(now)
        /\ file.content.mcpCache[m] = state.mcpCache[m]
        /\ state.mcpCache[m].data.mcp = m

C9_NoEarlyRetry ==
  Resolves =>
    LET m == Mcps[pos].name
    IN  (calls' # calls /\ analysed[m].failed) =>
          now >= analysed[m].at + CACHE_DURATION_DAYS

\* C9: after stage 2 the cache, in the state and in the file, holds an entry
\* with the current time for every consumer computed in the cycle, fallback
\* or not; and the service is not called again for a consumer whose call
\* failed at time T before T + 30 days.
C9_FailureIsCached == []C9_Written /\ [][C9_NoEarlyRetry]_vars

\* A consumer whose call failed a day ago was served from the cache.
C9_Witness ==
  /\ pc = "Resolving"
  /\ pos = 2
  /\ analysed[Mcps[1].name].failed
  /\ now = analysed[Mcps[1].name].at + 1
  /\ IsFallback(mcpDependencies[1], Mcps[1])
  /\ Stage2Calls = {}

\* -------------------------------------------------------------------- C10

C10_Observation ==
  (pc = "Detecting" /\ pos <= Len(PageList) /\ ~state.sources[PageList[pos].url].seen) =>
    /\ Len(changes') <= Len(changes) + 1
    /\ \A i \in (Len(changes) + 1)..Len(changes') :
         /\ changes'[i].url = PageList[pos].url
         /\ changes'[i].changeType = "new"
    /\ state'.sources[PageList[pos].url].status # 0 => Len(changes') = Len(changes) + 1

\* C10: the check of a URL that has no previous entry reports, if anything,
\* a change of type new, never modified; and it reports one when the fetch
\* succeeded.
C10_FirstObservationIsNew == [][C10_Observation]_vars

\* The first page was fetched for the first time, and reported new.
C10_Witness ==
  /\ pc = "Detecting"
  /\ pos = 2
  /\ ~file.exists
  /\ Len(changes) = 1
  /\ changes[1].changeType = "new"
  /\ changes[1].url = PageList[1].url

\* -------------------------------------------------------------------- C11

\* checkSingleSource is about to check the page at pos.
Checks == pc = "Detecting" /\ pos <= Len(PageList)

\* The entry of the page at pos before the check, and the fetch the check
\* made.
Stored == state.sources[PageList[pos].url]
Fetched == Last(fetchLog').outcome

C11_Check ==
  (Checks /\ fetchLog' # fetchLog) =>
    ((Stored.seen /\ Fetched.ok /\ hashContent(Fetched.content) = Stored.hash)
       => changes' = changes)

\* C11: a check of a URL whose stored fingerprint is H1, with a fetch that
\* succeeds with content of fingerprint H1, emits no change record.
C11_SameFingerprintNoRecord == [][C11_Check]_vars

\* The first page was fetched again with the content it had, and nothing was
\* reported.
C11_Witness ==
  /\ pc = "Detecting"
  /\ pos = 2
  /\ file.content.sources[PageList[1].url].seen
  /\ fetchLog[1].outcome.ok
  /\ hashContent(fetchLog[1].outcome.content) = file.content.sources[PageList[1].url].hash
  /\ changes = << >>

\* -------------------------------------------------------------------- C12

C12_Check ==
  (Checks /\ fetchLog' # fetchLog) =>
    ((Stored.seen /\ Fetched.ok /\ hashContent(Fetched.content) # Stored.hash) =>
       /\ Len(changes') = Len(changes) + 1
       /\ SubSeq(changes', 1, Len(changes)) = changes
       /\ Last(changes').url = PageList[pos].url
       /\ Last(changes').changeType = "modified"
       /\ Last(changes').previousHash = Stored.hash
       /\ Last(changes').currentHash = hashContent(Fetched.content)
       /\ state'.sources[PageList[pos].url].hash = hashContent(Fetched.content))

\* C12: a check of a URL whose stored fingerprint is H1, with a fetch that
\* succeeds with fingerprint H2 # H1, emits exactly one record, of kind
\* modified, with previousHash H1 and currentHash H2, and stores H2.
C12_ChangedFingerprintModified == [][C12_Check]_vars

\* The first page, stored with the fingerprint of one text, came back as
\* markup without text and was reported modified.
C12_Witness ==
  /\ pc = "Detecting"
  /\ pos = 2
  /\ file.content.sources[PageList[1].url].hash = hashContent(<<"a">>)
  /\ fetchLog[1].outcome.ok
  /\ fetchLog[1].outcome.content = <<"<p>">>
  /\ Len(changes) = 1
  /\ changes[1].changeType = "modified"
  /\ state.sources[PageList[1].url].hash = hashContent(<<"<p>">>)

\* -------------------------------------------------------------------- C13

C13_Check ==
  (Checks /\ fetchLog' # fetchLog /\ ~Fetched.ok) =>
    /\ state'.sources[PageList[pos].url].seen
    /\ state'.sources[PageList[pos].url].status = 0
    /\ IF Stored.seen /\ Stored.status # 0
       THEN /\ Len(changes') = Len(changes) + 1
            /\ SubSeq(changes', 1, Len(changes)) = changes
            /\ Last(changes').url = PageList[pos].url
            /\ Last(changes').changeType = "unavailable"
            /\ Last(changes').previousStatus = Stored.status
            /\ Last(changes').currentStatus = 0
       ELSE changes' = changes

\* C13: a failed fetch of a URL whose stored status is not 0 emits exactly
\* one record, unavailable, with the stored status as previousStatus and
\* currentStatus 0, and stores status 0; a failed fetch of a URL stored with
\* status 0, or never seen, emits nothing.  So only the first of consecutive
\* failures emits a record.
C13_UnavailableOnce == [][C13_Check]_vars

\* The first page, already stored as unreachable by an earlier run, failed
\* again, and nothing was reported.
C13_Witness ==
  /\ pc = "Detecting"
  /\ pos = 2
  /\ file.content.sources[PageList[1].url].seen
  /\ file.content.sources[PageList[1].url].status = 0
  /\ ~fetchLog[1].outcome.ok
  /\ changes = << >>

\* -------------------------------------------------------------------- C14

\* checkSources has returned.
Detected == saves # << >>

\* The entry of a fetched URL is the one its fetch gives, written now.
WrittenFrom(entry, f) ==
  /\ entry.seen
  /\ entry.lastChecked = toISOString(now)
  /\ IF f.ok
     THEN entry.hash = hashContent(f.content) /\ entry.status = f.status
     ELSE entry.hash = EmptyHash /\ entry.status = 0

\* C14: every check of a URL has written the URL's entry, from a successful
\* fetch (fingerprint, status, timestamp) and from a failed one (status 0);
\* and when checkSources has returned, every configured URL has an entry
\* written in this cycle, in the state and in the file.
C14_EntryAlwaysWritten ==
  /\ \A i \in 1..Len(fetchLog) :
       WrittenFrom(state.sources[fetchLog[i].url], fetchLog[i].outcome)
  /\ Detected =>
       \A u \in Urls :
         /\ state.sources[u].seen
         /\ state.sources[u].lastChecked = toISOString(now)
         /\ file.content.sources[u] = state.sources[u]

\* checkSources has returned on an older state file, after a fetch that
\* failed and a fetch that succeeded.
C14_Witness ==
  /\ Detected
  /\ \E i \in 1..Len(fetchLog) : ~fetchLog[i].outcome.ok
  /\ \E i \in 1..Len(fetchLog) : fetchLog[i].outcome.ok
  /\ now > 0
  /\ \A u \in Urls : file.content.sources[u].lastChecked = toISOString(now)

\* -------------------------------------------------------------------- C15

\* The records of the run for a URL.
RecordsOf(u) == SelectSeq(changes, LAMBDA r : r.url = u)

\* The kinds of the records that the check of one URL gives, from the URL's
\* entry as loaded and its own fetch alone.
KindsFor(prev, f) ==
  IF f.ok
  THEN IF ~prev.seen THEN <<"new">>
       ELSE IF prev.hash # hashContent(f.content) THEN <<"modified">>
       ELSE << >>
  ELSE IF prev.seen /\ prev.status # 0 THEN <<"unavailable">> ELSE << >>

\* The loop of checkSources is over.
AllChecked == pc = "Detecting" /\ pos > Len(PageList)

\* C15: whichever fetches fail, checkSources fetches every configured page
\* exactly once, in order, and comes to its end; and the records it has for a
\* page are those that the page's own stored entry and own fetch give,
\* whatever the fetches of the other pages did.
C15_FetchIsolation ==
  (pc = "Detecting") =>
    /\ Len(fetchLog) = pos - 1
    /\ AllChecked => Len(fetchLog) = Len(PageList)
    /\ \A i \in 1..Len(fetchLog) :
         LET u == PageList[i].url
             rs == RecordsOf(u)
             f == fetchLog[i].outcome
         IN  /\ fetchLog[i].url = u
             /\ [k \in 1..Len(rs) |-> rs[k].changeType]
                  = KindsFor(loadCheckState.sources[u], f)
             /\ \A k \in 1..Len(rs) :
                  f.ok => /\ rs[k].content = extractTextContent(f.content)
                          /\ rs[k].currentHash = hashContent(f.content)

\* The first fetch failed, and the second and third pages were fetched and
\* reported all the same.
C15_Witness ==
  /\ AllChecked
  /\ ~fetchLog[1].outcome.ok
  /\ \A i \in 2..Len(PageList) :
       fetchLog[i].outcome.ok /\ Len(RecordsOf(PageList[i].url)) = 1

\* ---------------------------------------------------------------- C16

\* The state that the save the run has come to would write.
Saving ==
  IF pc = "Detecting"
  THEN [state EXCEPT !.lastCheck = toISOString(now)]
  ELSE [state EXCEPT !.mcpCache = updatedCache]

\* A step in which the process stops inside saveCheckState.
C16_Stop == error # "killed" /\ error' = "killed"

C16_StopKeepsState ==
  C16_Stop => loadFrom(file') \in { loadFrom(file), Saving }

\* C16: when the process stops inside saveCheckState, the next
\* loadCheckState returns the whole state that the file held before, or the
\* whole state that was being saved, never an empty or a partial one.
C16_SaveIsAtomic == [][C16_StopKeepsState]_vars

\* ---------------------------------------------------------------- C18

\* C18: loadCheckState never fails the run: with the configuration read
\* and the API key set, whatever the state file holds, a run comes to
\* detection and does not fail before its first fetch.
C18_LoadNeverFails ==
  (pc = "Failed" /\ fetchLog = << >>) => error \in {"no-api-key", "config"}

\* ---------------------------------------------------------------- C19

\* notifyChanges was called with the Decision of the run.
Notified == pc = "Done" /\ slack.asked

\* C19: notifyChanges sends no message when the Decision's action is none,
\* whatever else the Decision holds, and makes exactly one attempt to send,
\* delivered or not, when the action is notify or urgent; nothing is sent
\* where notifyChanges is not called.
C19_NotifierSends ==
  /\ Notified /\ engineerOutput.action = "none" => slack.sends = 0
  /\ Notified /\ engineerOutput.action \in {"notify", "urgent"} => slack.sends = 1
  /\ ~Notified => slack.sends = 0

\* The service decided for none on a change that it was shown, and
\* notifyChanges, called with a webhook, sent nothing.
C19_Witness ==
  /\ Notified
  /\ engineerOutput.action = "none"
  /\ Called(3, "decision")
  /\ slack.sends = 0

\* ---------------------------------------------------------------- C17

\* Stage 2 is over in a full check, and the run has not failed.
PastStage2 == command = "check" /\ pc \in {"Deciding", "Reporting", "Done"}

\* The saves of a full check, by whether a changed page went to analysis.
SavesOf(analysing) ==
  IF analysing THEN <<"Detecting", "Resolving">> ELSE <<"Detecting">>

Stage1Keys ==
  LET cs == SelectSeq(calls, LAMBDA c : c.stage = 1)
  IN  [i \in 1..Len(cs) |-> cs[i].key]

\* The URLs of the records of the run that carry content, in their order.
ContentUrls ==
  LET cs == SelectSeq(changes, LAMBDA c : c.hasContent /\ c.content # << >>)
  IN  [i \in 1..Len(cs) |-> cs[i].url]

\* A full check is past detection and not in Stage 1.
Stage1Left == command = "check" /\ saves # << >> /\ pc # "Classifying"

\* C20: once Stage 1 of a cycle is left, the service has been called for
\* Stage 1 exactly once for each record that carries content, in the order
\* of the records, and for no other page.
C20_Stage1FanOut == Stage1Left => Stage1Keys = ContentUrls

\* ---------------------------------------------------------------- C21

\* A step in which analyzeProviderPages returns the result of a provider.
ProviderMerged == Len(apiChanges') = Len(apiChanges) + 1

\* The entries reported for the provider's pages, in the order of the pages:
\* those of the earlier pages and those of the page analysed in the step.
Reported == allChanges \o lastResult'.changes

\* kept holds the entries of all that are the first with their title, and
\* in the order they have in all.
FirstOccurrences(all, kept) ==
  /\ \A i, j \in 1..Len(kept) : kept[i].title = kept[j].title => i = j
  /\ \A i \in 1..Len(all) : \E k \in 1..Len(kept) : kept[k].title = all[i].title
  /\ \E at \in [1..Len(kept) -> 1..Len(all)] :
       /\ \A k \in 1..Len(kept) :
            /\ kept[k] = all[at[k]]
            /\ \A j \in 1..(at[k] - 1) : all[j].title # kept[k].title
       /\ \A k, l \in 1..Len(kept) : k < l => at[k] < at[l]

C21_Merge ==
  ProviderMerged => FirstOccurrences(Reported, Last(apiChanges').changes)

\* C21: the change list of a provider has no two entries of one title, has
\* every title that was reported for a page of the provider, and has its
\* entries in the order of their first occurrence: of the entries of one
\* title the first is the one kept.
C21_MergeKeepsFirst == [][C21_Merge]_vars

\* Both pages of the first provider were reported with the same title: the
\* provider's list has the entry of the first page alone.
C21_Witness ==
  /\ Len(apiChanges) >= 1
  /\ Len(apiChanges[1].changes) = 1
  /\ apiChanges[1].changes[1].sourceUrl = PageList[1].url
  /\ Len(lastResult.changes) = 1
  /\ lastResult.changes[1].title = apiChanges[1].changes[1].title
  /\ lastResult.changes[1].sourceUrl = PageList[2].url

\* ---------------------------------------------------------------- C22

\* C22: in every provider result that Stage 1 hands on, noChangesDetected
\* is false exactly when the change list has an entry, whatever flag the
\* service gave with its entries.
C22_FlagFollowsList ==
  \A i \in 1..Len(apiChanges) :
    apiChanges[i].noChangesDetected = (Len(apiChanges[i].changes) = 0)

\* The service reported an entry for the last page of a provider and said
\* with it that nothing had changed: the provider's result has the entry
\* and the flag false.
C22_Witness ==
  /\ apiChanges # << >>
  /\ allChanges = << >>
  /\ lastResult.provider = Last(apiChanges).provider
  /\ lastResult.changes # << >>
  /\ lastResult.noChangesDetected
  /\ Last(apiChanges).changes # << >>
  /\ ~Last(apiChanges).noChangesDetected

\* ---------------------------------------------------------------- C23

\* The calls of the run to the service in the given stage.
CallsOf(stage) == SelectSeq(calls, LAMBDA c : c.stage = stage)

\* No two of the calls are for the same key.
OncePerKey(cs) == \A i, j \in 1..Len(cs) : cs[i].key = cs[j].key => i = j

\* C23: in one cycle the service is called at most once for each changed
\* page in Stage 1, at most once for each consumer in Stage 2 and at most
\* once in Stage 3, failed calls included.
C23_NoRetry ==
  /\ OncePerKey(CallsOf(1))
  /\ \A i \in 1..Len(CallsOf(1)) :
       \E k \in 1..Len(changes) : changes[k].url = CallsOf(1)[i].key
  /\ OncePerKey(CallsOf(2))
  /\ \A i \in 1..Len(CallsOf(2)) : CallsOf(2)[i].key \in McpNames
  /\ Len(CallsOf(3)) <= 1

\* Every call of a full check failed, for each page and for each consumer,
\* and the check came to its end without a second call for any of them.
C23_Witness ==
  /\ pc = "Done"
  /\ Len(CallsOf(1)) = Len(PageList)
  /\ Len(CallsOf(2)) = Len(Mcps)
  /\ \A i \in 1..Len(calls) : calls[i].outcome = "failure"

\* ---------------------------------------------------------------- C24

\* C24: at most one call of the service is open at a time; when a Stage 2
\* call is open every Stage 1 call of the cycle has been answered, when the
\* Stage 3 call is open every consumer has its profile; and the answers
\* come stage after stage, none of an earlier stage after one of a later.
C24_Sequential ==
  /\ inflight \in {0, 1}
  /\ inflight = 1 => Calling
  /\ (inflight = 1 /\ pc = "Resolving") => Stage1Keys = ContentUrls
  /\ (inflight = 1 /\ pc = "Deciding") =>
       /\ Stage1Keys = ContentUrls
       /\ Len(mcpDependencies) = Len(Mcps)
  /\ \A i, j \in 1..Len(calls) : i < j => calls[i].stage <= calls[j].stage

\* The Stage 3 call is open, after two Stage 1 calls and a Stage 2 call for
\* each consumer, all answered.
C24_Witness ==
  /\ inflight = 1
  /\ pc = "Deciding"
  /\ Len(CallsOf(1)) >= 2
  /\ Len(CallsOf(2)) = Len(Mcps)
  /\ Len(CallsOf(3)) = 0

\* ---------------------------------------------------------------- C25

\* The stages of a full check, in their order.
Stages == <<"Idle", "Detecting", "Classifying", "Resolving", "Deciding", "Reporting", "Done">>

StageOf(p) == CHOOSE i \in 1..Len(Stages) : Stages[i] = p

\* Detection found nothing to analyse.
NothingToAnalyse == Len(changedProviders) = 0

\* A step of a full check that changes the stage and does not fail goes to
\* the next stage; from Detecting alone it goes two stages further, to
\* Deciding, and does so exactly when there is nothing to analyse.
C25_Step ==
  (command' = "check" /\ pc' # pc /\ pc' # "Failed") =>
    /\ pc # "Failed"
    /\ StageOf(pc') = StageOf(pc) + (IF pc = "Detecting" /\ NothingToAnalyse THEN 3 ELSE 1)

\* A full check with nothing to analyse comes to Deciding with no provider
\* result and no profile, and has called the service neither in Stage 1 nor
\* in Stage 2.
C25_Skip ==
  (command = "check" /\ saves # << >> /\ NothingToAnalyse) =>
    /\ pc \in {"Deciding", "Reporting", "Done"}
    /\ apiChanges = << >>
    /\ mcpDependencies = << >>
    /\ calls = << >>
    /\ inflight = 0

\* C25: a full check goes through Detecting, Classifying, Resolving,
\* Deciding and Reporting in this order and never back; when detection
\* gives nothing to analyse it goes from Detecting to Deciding, with no
\* changes and no profiles, and makes no Stage 1 and no Stage 2 call.
C25_LinearStages == []C25_Skip /\ [][C25_Step]_vars

\* Detection reported a page as unavailable and nothing to analyse: the
\* check went from Detecting to the decision and to its end with no call.
C25_Witness ==
  /\ command = "check"
  /\ pc = "Done"
  /\ changes # << >>
  /\ NothingToAnalyse
  /\ calls = << >>

\* ---------------------------------------------------------------- C26

\* Detection reported a page as unavailable.
SomeUnavailable ==
  \E k \in 1..Len(changes) : changes[k].changeType = "unavailable"

\* C26: no record of kind unavailable goes to Stage 1, and a full check
\* whose detection reported a page as unavailable does not report that
\* nothing has changed: what it reports carries the record.
C26_UnavailableReported ==
  /\ \A k \in 1..Len(changes) :
       changes[k].changeType = "unavailable" => ~Called(1, changes[k].url)
  /\ (command = "check" /\ pc \in {"Reporting", "Done"} /\ SomeUnavailable) =>
       engineerOutput # noChangesDecision

\* ---------------------------------------------------------------- C27

\* A step of checkSingleSource, for the page at pos.
C27_Checks == pc = "Detecting" /\ pos' = pos + 1

\* The entry that one check writes: all three fields from the fetch that
\* succeeded, or the three fields of a failure.
WholeEntry(f) ==
  IF f.ok
  THEN [seen |-> TRUE, hash |-> hashContent(f.content),
        lastChecked |-> toISOString(now), status |-> f.status]
  ELSE [seen |-> TRUE, hash |-> EmptyHash,
        lastChecked |-> toISOString(now), status |-> 0]

C27_Frame ==
  C27_Checks =>
    LET url == PageList[pos].url IN
    /\ \A u \in Urls \ {url} : state'.sources[u] = state.sources[u]
    /\ state'.sources[url] = WholeEntry(Last(fetchLog').outcome)
    /\ state'.mcpCache = state.mcpCache
    /\ state'.lastCheck = state.lastCheck
    /\ file' = file

\* C27: the check of one URL writes that URL's entry alone, and writes its
\* fingerprint, status and time together; the entries of the other URLs,
\* the dependency cache and the state file are as they were.  (The
\* configuration is fixed in this model: checkSingleSource only reads it.)
C27_OnlyOwnEntry == [][C27_Frame]_vars

\* The first page was checked on a state of an earlier day: its entry has
\* the time of this check, and the entries of the other pages and the cache
\* still have theirs.
C27_Witness ==
  /\ pc = "Detecting"
  /\ pos = 2
  /\ state.sources[PageList[1].url].lastChecked = toISOString(now)
  /\ \A i \in 2..Len(PageList) :
       /\ state.sources[PageList[i].url].seen
       /\ state.sources[PageList[i].url].lastChecked # toISOString(now)
  /\ \E m \in McpNames : state.mcpCache[m].has

\* ---------------------------------------------------------------- C28

\* notifyChanges tried to send and the message was not delivered.
DeliveryFailed == slack.asked /\ slack.sends = 1 /\ ~slack.sent

\* C28: when the message is not delivered, notifyChanges returns false and
\* the full check ends as it does after a delivery: normally, with no
\* error.
C28_DeliveryFailureNotFatal ==
  DeliveryFailed => pc = "Done" /\ error = ""

\* An urgent Decision was not delivered, and the run is done.
C28_Witness ==
  /\ DeliveryFailed
  /\ engineerOutput.action = "urgent"
  /\ pc = "Done"

\* ---------------------------------------------------------------- C29

\* The run failed in detection: before checkSources had returned, and not
\* for a missing API key, which stops a full check before detection.
DetectionFailed == pc = "Failed" /\ saves = << >> /\ error # "no-api-key"

\* C29: a cycle fails in detection only when the configuration cannot be
\* loaded, and then before any page is fetched and before the state file is
\* read or written.
C29_OnlyConfigFatal ==
  DetectionFailed =>
    /\ error = "config"
    /\ fetchLog = << >>
    /\ state = EmptyCheckState

\* ---------------------------------------------------------------- C30

\* The non-empty runs of whitespace of up to two tokens.
WsRuns == SeqsUpTo(Whitespace, 2) \ { << >> }

\* x[i..j] is a run of whitespace.
IsWsRun(x, i, j) == i <= j /\ \A k \in i..j : x[k] \in Whitespace

\* The texts that differ from x in one run of whitespace, replaced by
\* another run, or in one timestamp, replaced by another.
EditsOf(x) ==
  { SubSeq(x, 1, ij[1] - 1) \o w \o SubSeq(x, ij[2] + 1, Len(x)) :
      ij \in { p \in (1..Len(x)) \X (1..Len(x)) : IsWsRun(x, p[1], p[2]) },
      w \in WsRuns }
  \cup { [x EXCEPT ![i] = t] :
           i \in { k \in 1..Len(x) : x[k] \in Timestamps }, t \in Timestamps }

\* The fingerprints of the bodies, and the bodies one edit away from each.
Fingerprint == [x \in Bodies |-> hashContent(x)]
Edited == [x \in Bodies |-> (EditsOf(x) \cap Bodies) \ {x}]

\* A step that checks the last page, whose body varies.
C30_Check == pc = "Detecting" /\ pos = Len(PageList) /\ pos' = pos + 1

C30_Step ==
  C30_Check =>
    \A x \in Bodies :
      ( /\ Stored.seen
        /\ Stored.hash = Fingerprint[x]
        /\ Fetched.content \in Edited[x] \cup {x} )
      => /\ changes' = changes
         /\ state'.sources[PageList[pos].url].hash = Stored.hash

\* C30: the fingerprint of a text is the same at every fetch of the text,
\* and the same for two texts that differ in a run of whitespace or in a
\* timestamp: a fetch of a text that differs only so from the text whose
\* fingerprint is stored emits no record and stores the same fingerprint.
C30_FingerprintStable == [][C30_Step]_vars

\* The page was fetched with a text one edit away from a text whose
\* fingerprint the file holds from the run before, and no record was made.
C30_Witness ==
  /\ pc = "Detecting"
  /\ pos = Len(PageList) + 1
  /\ changes = << >>
  /\ file.exists
  /\ \E x \in Bodies :
       /\ file.content.sources[PageList[Len(PageList)].url].hash = Fingerprint[x]
       /\ Last(fetchLog).outcome.content \in Edited[x]
       /\ \E i \in 1..Len(x) : x[i] \in Timestamps
       /\ \E i \in 1..Len(x) : x[i] \in Whitespace

\* ---------------------------------------------------------------- C31

\* A step of stage 2 that returns the consumer's profile from the cache.
C31_Hit == Resolves /\ pos' = pos + 1 /\ calls' = calls

C31_ProfileYoung ==
  C31_Hit =>
    LET m == Mcps[pos].name
    IN  /\ Last(mcpDependencies') = state.mcpCache[m].data
        /\ now - analysed[m].at < CACHE_DURATION_DAYS

\* C31: over any sequence of cycles, a profile that stage 2 returns from
\* the cache was computed, by the service or as the fallback, less than 30
\* days before the attempt that returns it.
C31_NoOldProfile == [][C31_ProfileYoung]_vars

\* ---------------------------------------------------------------- C32

\* Detection reported a page as new or modified.
SomeChanged ==
  \E k \in 1..Len(changes) : changes[k].changeType \in {"new", "modified"}

\* The run has called the service, and every call failed.
AllCallsFailed ==
  /\ calls # << >>
  /\ \A i \in 1..Len(calls) : calls[i].outcome = "failure"

\* C32: a full check that detected a new or modified page and whose calls
\* of the service all failed does not end with a Decision of action none.
C32_FailureNeverNone ==
  (command = "check" /\ pc \in {"Reporting", "Done"} /\ SomeChanged /\ AllCallsFailed) =>
    engineerOutput.action # "none"

\* ---------------------------------------------------------------- C33

\* The run has ended with no Decision: it was a check-sources run, or it
\* failed.
EndedUndecided == pc \in {"Done", "Failed"} /\ ~engineerOutput.made

\* The state file holds the fingerprint h as the baseline of the URL.
IsBaseline(url, h) ==
  file.exists /\ file.form = "state" /\ file.content.sources[url].hash = h

\* C33: when a cycle ends without a Decision, the fingerprint of a page it
\* detected as new or modified is not the baseline of the page in the state
\* file, so that the next full check detects the change again.
C33_ChangeNotLost ==
  EndedUndecided =>
    \A k \in 1..Len(changes) :
      changes[k].changeType \in {"new", "modified"} =>
        ~IsBaseline(changes[k].url, changes[k].currentHash)

\* ---------------------------------------------------------------- C34

\* Stage 1 of a full check is over, and the check has not failed.
Stage1Over ==
  /\ command = "check"
  /\ saves # << >>
  /\ pc \in {"Resolving", "Deciding", "Reporting", "Done"}

\* The number of Stage 1 calls of the run for the URL.
Stage1CallsFor(url) ==
  Len(SelectSeq(calls, LAMBDA c : c.stage = 1 /\ c.key = url))

\* C34: when Stage 1 of a full check is over, the service has been called
\* exactly once for every page that detection reported as new or modified,
\* whatever the page's text, the empty text included.
C34_EveryChangeAnalysed ==
  Stage1Over =>
    \A k \in 1..Len(changes) :
      changes[k].changeType \in {"new", "modified"} =>
        Stage1CallsFor(changes[k].url) = 1

\* ---------------------------------------------------------------- C35

\* C35: the previousHash of a modified record is a fingerprint of content
\* that was fetched, never the placeholder of a failed fetch: a page that
\* comes back after an outage is compared with the content it had before
\* the outage.
C35_ModifiedFromContent ==
  \A k \in 1..Len(changes) :
    changes[k].changeType = "modified" =>
      /\ changes[k].previousHash # EmptyHash
      /\ changes[k].previousHash # changes[k].currentHash

\* ---------------------------------------------------------------- C36

\* C36: the Decision that runFullCheck hands to the report and to the
\* notifier has one of the three actions and has its lists, affectedMcps
\* and details, whatever object the service answered with in Stage 3.
C36_DecisionWellFormed ==
  (pc \in {"Reporting", "Done"} /\ engineerOutput.made) =>
    /\ engineerOutput.action \in Actions
    /\ engineerOutput.hasLists

\* ---------------------------------------------------------------- C37

\* The service is being called, or has been called, for the decision.
Stage3Invoked ==
  \/ pc = "Deciding" /\ inflight > 0
  \/ Called(3, "decision")

\* C37: when Stage 3 calls the service, Stage 2 has run in the cycle: the
\* input of Stage 3 has one profile for each discovered consumer, in the
\* order of the consumers, and the cache with these profiles is in the
\* state file, written after Stage 2.
C37_Stage3AfterStage2 ==
  Stage3Invoked =>
    /\ Len(mcpDependencies) = Len(Mcps)
    /\ \A i \in 1..Len(Mcps) : mcpDependencies[i].mcp = Mcps[i].name
    /\ saves = <<"Detecting", "Resolving">>
    /\ file.exists /\ file.form = "state"
    /\ \A i \in 1..Len(Mcps) :
         /\ file.content.mcpCache[Mcps[i].name].has
         /\ file.content.mcpCache[Mcps[i].name].data = mcpDependencies[i]

\* The request of Stage 3 is open; the profiles it was given were computed
\* in this cycle, one of them as the fallback, and both are in the file.
C37_Witness ==
  /\ pc = "Deciding"
  /\ inflight = 1
  /\ Len(CallsOf(2)) = Len(Mcps)
  /\ \E i \in 1..Len(CallsOf(2)) : CallsOf(2)[i].outcome = "failure"
  /\ Len(mcpDependencies) = Len(Mcps)
  /\ \A i \in 1..Len(Mcps) :
       file.content.mcpCache[Mcps[i].name].data = mcpDependencies[i]

====
